---------------------------- MODULE Spec2Model ----------------------------
(***************************************************************************)
(* LuxtronikDevice (custom_components/luxtronik/__init__.py): the wrapper  *)
(* that guards a Luxtronik device handle with one threading.Lock and a     *)
(* lock timeout.  update() and write() are modelled statement by           *)
(* statement, one action per blocking point; get_value() is a lookup in    *)
(* the handle's three tables.  Time is discrete; one tick is 60 seconds.   *)
(***************************************************************************)
EXTENDS Integers, Sequences, FiniteSets, TLC

\* ------------------------------------------------------------- bounds
NThreads == 2
MaxTime == 3
\* lock_timeout_sec in ticks (CONF_LOCK_TIMEOUT, a configuration value)
LockTimeout == 1

\* MIN_TIME_BETWEEN_UPDATES = timedelta(seconds=60), in ticks
MIN_TIME_BETWEEN_UPDATES == 1

Threads == 1..NThreads
NoThread == 0
None == "None"

\* ------------------------------------------------------------- strings
\* A Python str is a sequence of one-character strings.
CONF_PARAMETERS == <<"p","a","r","a","m","e","t","e","r","s">>
CONF_CALCULATIONS == <<"c","a","l","c","u","l","a","t","i","o","n","s">>
CONF_VISIBILITIES == <<"v","i","s","i","b","i","l","i","t","i","e","s">>

\* str.split(sep): the maximal pieces of s between occurrences of sep.
RECURSIVE SplitFrom(_, _, _, _)
SplitFrom(s, sep, i, cur) ==
  IF i > Len(s) THEN <<cur>>
  ELSE IF s[i] = sep THEN <<cur>> \o SplitFrom(s, sep, i + 1, <<>>)
  ELSE SplitFrom(s, sep, i + 1, Append(cur, s[i]))

Split(s, sep) == SplitFrom(s, sep, 1, <<>>)

\* ------------------------------------------------------------- inputs
Groups == {CONF_PARAMETERS, CONF_CALCULATIONS, CONF_VISIBILITIES, <<"r","o","o","m">>}
SensorIds == {<<"1">>, <<"2">>}
\* the identifiers get_value is called with: group.sensor_id, and one
\* identifier without a dot
GroupSensorIds ==
  {g \o <<".">> \o s : g \in Groups, s \in SensorIds} \cup {<<"1">>}
\* parameter values (the heating mode, say)
Values == {"Off", "Automatic"}
\* the identifiers the threads of Spec poll while update() and write() run
PolledIds == {CONF_PARAMETERS \o <<".", "1">>, CONF_PARAMETERS \o <<".", "2">>}

\* ------------------------------------------------------------- state
VARIABLES
  pc,            \* per thread: position in update() or write()
  lock,          \* self.lock: TRUE when locked
  holder,        \* history: the thread whose acquire() locked self.lock
  now,           \* the clock, in ticks
  deadline,      \* per thread: when its lock.acquire(timeout=...) gives up
  args,          \* per thread: the call it is in and its arguments
  update_immediately_after_write, \* conf[CONF_UPDATE_IMMEDIATELY_AFTER_WRITE]
  lux,           \* self._luxtronik: the three tables and the write queue
  device,        \* the heat pump's own parameter value
  throttle,      \* Throttle's [lock, last run] for update() of this device
  acquired,      \* per thread: lock.acquire() returned True in this call
  attempts,      \* per thread: lock.acquire() calls made in this call
  warned,        \* per thread: LOGGER.warning calls made in this call
  ops,           \* per thread: device-handle operations started in this call
  exc,           \* per thread: the exception the call is leaving with
  returned,      \* history: the call that returned in the last step, and how
  lastBodyStart, \* history: when update()'s body last started
  lastOkReturn,  \* history: when update()'s body last returned normally
  hass_data,     \* hass.data[DOMAIN]: "unset" or "device"
  connected,     \* the device handle's connection is open
  unload,        \* async_unload_entry: where it is, unload_ok, what it did
  stopped        \* EVENT_HOMEASSISTANT_STOP has been handled

vars == <<pc, lock, holder, now, deadline, args, update_immediately_after_write, lux, device, throttle,
          acquired, attempts, warned, ops, exc, returned, lastBodyStart,
          lastOkReturn, hass_data, connected, unload, stopped>>

\* The throttle's record of the last run before any run: None in the code.
Never == -1

\* The thread that runs setup_int, and after it the polling of update();
\* the others call the write_parameter service.
SetupThread == 1
Writers == Threads \ {SetupThread}

\* What setup and unload own.
life == <<hass_data, connected, unload, stopped>>

\* async_unload_entry has not been called.
NoUnload == [pc |-> "none", unload_ok |-> FALSE, disconnects |-> 0, ret |-> FALSE]

NoArgs == [op |-> "none", value |-> None, ui |-> FALSE, id |-> <<>>]

\* What the heat pump reports of its calculations and visibilities.
DeviceCalculations == (<<"1">> :> "21.5") @@ (<<"2">> :> "48.0")
DeviceVisibilities == (<<"1">> :> "visible")

\* Lux.read(): refresh the tables from the heat pump.
LuxRead(l, dev) ==
  [l EXCEPT !.parameters = (<<"1">> :> dev),
            !.calculations = DeviceCalculations,
            !.visibilities = DeviceVisibilities]

\* Lux.parameters.set(parameter, value): queue the value for the next write.
ParametersSet(l, parameter, value) ==
  [l EXCEPT !.queue = (parameter :> value)]

\* Lux.write(): send the queued values to the heat pump and empty the queue.
LuxWriteDevice(l, dev) ==
  IF <<"1">> \in DOMAIN l.queue THEN l.queue[<<"1">>] ELSE dev

LuxWriteHandle(l) == [l EXCEPT !.queue = <<>>]

\* The handle after Lux(host, port, safe) and the first update() of __init__.
InitLux(dev) ==
  [parameters |-> (<<"1">> :> dev),
   calculations |-> DeviceCalculations,
   visibilities |-> DeviceVisibilities,
   queue |-> <<>>]

\* What is recorded of a call when it returns.
Returned(a, acq, att, wrn, o, e, r) ==
  [args |-> a, acquired |-> acq, attempts |-> att, warned |-> wrn,
   ops |-> o, exc |-> e, ret |-> r]

\* The last step was not the return of a call.
NoReturn == Returned(NoArgs, FALSE, 0, 0, <<>>, "none", None)

Init ==
  /\ pc = [t \in Threads |-> "idle"]
  /\ lock = FALSE
  /\ holder = NoThread
  /\ now = 0
  /\ deadline = [t \in Threads |-> 0]
  /\ args = [t \in Threads |-> NoArgs]
  /\ update_immediately_after_write \in BOOLEAN
  /\ device \in Values
  /\ lux = InitLux(device)
  /\ throttle = [lock |-> FALSE, last |-> 0]
  /\ acquired = [t \in Threads |-> FALSE]
  /\ attempts = [t \in Threads |-> 0]
  /\ warned = [t \in Threads |-> 0]
  /\ ops = [t \in Threads |-> <<>>]
  /\ exc = [t \in Threads |-> "none"]
  /\ returned = NoReturn
  /\ lastBodyStart = 0
  /\ lastOkReturn = 0
  /\ hass_data = "device"
  /\ connected = TRUE
  /\ unload = NoUnload
  /\ stopped = FALSE

\* Thread t enters a call with arguments a and reaches lock.acquire().
Enter(t, a, p) ==
  /\ pc' = [pc EXCEPT ![t] = p]
  /\ args' = [args EXCEPT ![t] = a]
  /\ attempts' = [attempts EXCEPT ![t] = 1]
  /\ deadline' = [deadline EXCEPT ![t] = now + LockTimeout]
  /\ UNCHANGED <<update_immediately_after_write, acquired, warned, ops, exc>>

\* Thread t leaves its call with exception e (or "none").
Leave(t, e) ==
  /\ pc' = [pc EXCEPT ![t] = "idle"]
  /\ returned' = Returned(args[t], acquired[t], attempts[t], warned[t], ops[t], e, None)
  /\ args' = [args EXCEPT ![t] = NoArgs]
  /\ acquired' = [acquired EXCEPT ![t] = FALSE]
  /\ attempts' = [attempts EXCEPT ![t] = 0]
  /\ warned' = [warned EXCEPT ![t] = 0]
  /\ ops' = [ops EXCEPT ![t] = <<>>]
  /\ exc' = [exc EXCEPT ![t] = "none"]

Tick ==
  /\ now < MaxTime
  /\ now' = now + 1
  /\ returned' = NoReturn
  /\ UNCHANGED <<life, update_immediately_after_write, pc, lock, holder, deadline, args, lux, device, throttle,
                 acquired, attempts, warned, ops, exc, lastBodyStart, lastOkReturn>>

\* ------------------------------------------------------------- write()
\* write_parameter calls write(parameter, value,
\* update_immediately_after_write), which reaches
\* lock.acquire(blocking=True, timeout=self._lock_timeout_sec).
\* The value is drawn where parameters.set uses it.
WriteCall(t) ==
  /\ pc[t] = "idle"
  /\ now + LockTimeout <= MaxTime
  /\ Enter(t, [op |-> "write", value |-> None, ui |-> update_immediately_after_write,
               id |-> <<"1">>], "w_acquire")
  /\ returned' = NoReturn
  /\ UNCHANGED <<life, update_immediately_after_write, lock, holder, now, lux, device, throttle, lastBodyStart, lastOkReturn>>

\* acquire() returns True: the lock was free and is now locked;
\* parameters.set is called.
WriteAcquire(t) ==
  /\ pc[t] = "w_acquire"
  /\ ~lock
  /\ lock' = TRUE
  /\ holder' = t
  /\ acquired' = [acquired EXCEPT ![t] = TRUE]
  /\ ops' = [ops EXCEPT ![t] = Append(@, "set")]
  /\ pc' = [pc EXCEPT ![t] = "w_set"]
  /\ deadline' = [deadline EXCEPT ![t] = 0]
  /\ returned' = NoReturn
  /\ UNCHANGED <<life, update_immediately_after_write, now, args, lux, device, throttle, attempts, warned,
                 exc, lastBodyStart, lastOkReturn>>

\* WriteTimeout with the write done in spite of the timeout.
WriteTimeoutStillWrites(t) ==
  /\ pc[t] = "w_acquire"
  /\ lock
  /\ now >= deadline[t]
  /\ warned' = [warned EXCEPT ![t] = @ + 1]
  /\ ops' = [ops EXCEPT ![t] = Append(@, "set")]
  /\ pc' = [pc EXCEPT ![t] = "w_set"]
  /\ deadline' = [deadline EXCEPT ![t] = 0]
  /\ returned' = NoReturn
  /\ UNCHANGED <<life, update_immediately_after_write, lock, holder, now, args, lux, device,
                 throttle, acquired, attempts, exc, lastBodyStart, lastOkReturn>>

\* WriteTimeout with acquire(blocking=True), which never gives up.
WriteTimeoutNever(t) ==
  /\ pc[t] = "w_acquire"
  /\ FALSE
  /\ UNCHANGED vars

\* acquire() returns False: the timeout elapsed with the lock still taken;
\* the else branch logs the warning.
WriteTimeout(t) ==
  /\ pc[t] = "w_acquire"
  /\ lock
  /\ now >= deadline[t]
  /\ warned' = [warned EXCEPT ![t] = @ + 1]
  /\ pc' = [pc EXCEPT ![t] = "w_release"]
  /\ deadline' = [deadline EXCEPT ![t] = 0]
  /\ returned' = NoReturn
  /\ UNCHANGED <<life, update_immediately_after_write, lock, holder, now, args, lux, device, throttle,
                 acquired, attempts, ops, exc, lastBodyStart, lastOkReturn>>

\* self._luxtronik.parameters.set(parameter, value) returns, and
\* self._luxtronik.write() is called; or it raises.
WriteSet(t) ==
  /\ pc[t] = "w_set"
  /\ \/ /\ \E value \in Values : lux' = ParametersSet(lux, args[t].id, value)
        /\ ops' = [ops EXCEPT ![t] = Append(@, "write")]
        /\ pc' = [pc EXCEPT ![t] = "w_write"]
        /\ UNCHANGED exc
     \/ /\ exc' = [exc EXCEPT ![t] = "DeviceError"]
        /\ pc' = [pc EXCEPT ![t] = "w_release"]
        /\ UNCHANGED <<life, update_immediately_after_write, lux, ops>>
  /\ returned' = NoReturn
  /\ UNCHANGED <<life, update_immediately_after_write, lock, holder, now, deadline, args, device, throttle,
                 acquired, attempts, warned, lastBodyStart, lastOkReturn>>

\* WriteFlush with the read done whatever update_immediately_after_write is.
WriteFlushAlwaysReads(t) ==
  /\ pc[t] = "w_write"
  /\ \/ /\ device' = LuxWriteDevice(lux, device)
        /\ lux' = LuxWriteHandle(lux)
        /\ ops' = [ops EXCEPT ![t] = Append(@, "read")]
        /\ pc' = [pc EXCEPT ![t] = "w_read"]
        /\ UNCHANGED exc
     \/ /\ exc' = [exc EXCEPT ![t] = "DeviceError"]
        /\ pc' = [pc EXCEPT ![t] = "w_release"]
        /\ UNCHANGED <<lux, device, ops>>
  /\ returned' = NoReturn
  /\ UNCHANGED <<life, update_immediately_after_write, lock, holder, now, deadline, args,
                 throttle, acquired, attempts, warned, lastBodyStart, lastOkReturn>>

\* self._luxtronik.write() returns, and with update_immediately_after_write
\* self._luxtronik.read() is called; or it raises.
WriteFlush(t) ==
  /\ pc[t] = "w_write"
  /\ \/ /\ device' = LuxWriteDevice(lux, device)
        /\ lux' = LuxWriteHandle(lux)
        /\ IF args[t].ui
             THEN /\ ops' = [ops EXCEPT ![t] = Append(@, "read")]
                  /\ pc' = [pc EXCEPT ![t] = "w_read"]
             ELSE /\ pc' = [pc EXCEPT ![t] = "w_release"]
                  /\ UNCHANGED ops
        /\ UNCHANGED exc
     \/ /\ exc' = [exc EXCEPT ![t] = "DeviceError"]
        /\ pc' = [pc EXCEPT ![t] = "w_release"]
        /\ UNCHANGED <<life, update_immediately_after_write, lux, device, ops>>
  /\ returned' = NoReturn
  /\ UNCHANGED <<life, update_immediately_after_write, lock, holder, now, deadline, args, throttle,
                 acquired, attempts, warned, lastBodyStart, lastOkReturn>>

\* self._luxtronik.read() after the write returns or raises.
WriteRead(t) ==
  /\ pc[t] = "w_read"
  /\ \/ /\ lux' = LuxRead(lux, device)
        /\ UNCHANGED exc
     \/ /\ exc' = [exc EXCEPT ![t] = "DeviceError"]
        /\ UNCHANGED lux
  /\ pc' = [pc EXCEPT ![t] = "w_release"]
  /\ returned' = NoReturn
  /\ UNCHANGED <<life, update_immediately_after_write, lock, holder, now, deadline, args, device, throttle,
                 acquired, attempts, warned, ops, lastBodyStart, lastOkReturn>>

\* threading.Lock.release(), called by whichever thread: unlocks a locked
\* lock, raises RuntimeError on an unlocked one.
ReleaseExc(t) == IF lock THEN exc[t] ELSE "RuntimeError"

\* WriteRelease with release() at the end of the if branch, not in finally.
WriteReleaseNoFinally(t) ==
  /\ pc[t] = "w_release"
  /\ lock' = IF acquired[t] /\ exc[t] = "none" THEN FALSE ELSE lock
  /\ holder' = IF acquired[t] /\ exc[t] = "none" THEN NoThread ELSE holder
  /\ Leave(t, exc[t])
  /\ UNCHANGED <<life, update_immediately_after_write, now, deadline, lux, device, throttle,
                 lastBodyStart, lastOkReturn>>

\* finally: self.lock.release(); write() then returns or raises.
WriteRelease(t) ==
  /\ pc[t] = "w_release"
  /\ lock' = FALSE
  /\ holder' = NoThread
  /\ Leave(t, ReleaseExc(t))
  /\ UNCHANGED <<life, update_immediately_after_write, now, deadline, lux, device, throttle, lastBodyStart, lastOkReturn>>

\* ------------------------------------------------------------- update()
UpdateArgs == [op |-> "update", value |-> None, ui |-> FALSE, id |-> <<>>]

\* ThrottleAllows without the test of the time.
ThrottleAllowsAnyTime == ~throttle.lock

\* Throttle(MIN_TIME_BETWEEN_UPDATES): the wrapper runs the method when its
\* own lock is free and more than min_time has passed since the last run
\* that returned.
ThrottleAllows ==
  /\ ~throttle.lock
  /\ \/ throttle.last = Never
     \/ now - throttle.last > MIN_TIME_BETWEEN_UPDATES

\* update() is called and the throttle lets it through: the body reaches
\* lock.acquire(blocking=True, timeout=self._lock_timeout_sec).
UpdateCall(t) ==
  /\ pc[t] = "idle"
  /\ now + LockTimeout <= MaxTime
  /\ ThrottleAllows
  /\ Enter(t, UpdateArgs, "u_acquire")
  /\ throttle' = [throttle EXCEPT !.lock = TRUE]
  /\ lastBodyStart' = now
  /\ returned' = NoReturn
  /\ UNCHANGED <<life, update_immediately_after_write, lock, holder, now, lux, device, lastOkReturn>>

\* update() is called and the throttle returns None without running it.
UpdateThrottled(t) ==
  /\ pc[t] = "idle"
  /\ ~ThrottleAllows
  /\ returned' = Returned(UpdateArgs, FALSE, 0, 0, <<>>, "none", None)
  /\ UNCHANGED <<life, update_immediately_after_write, pc, lock, holder, now, deadline, args, lux, device, throttle,
                 acquired, attempts, warned, ops, exc, lastBodyStart, lastOkReturn>>

\* acquire() returns True; self._luxtronik.read() is called.
UpdateAcquire(t) ==
  /\ pc[t] = "u_acquire"
  /\ ~lock
  /\ lock' = TRUE
  /\ holder' = t
  /\ acquired' = [acquired EXCEPT ![t] = TRUE]
  /\ ops' = [ops EXCEPT ![t] = Append(@, "read")]
  /\ pc' = [pc EXCEPT ![t] = "u_read"]
  /\ deadline' = [deadline EXCEPT ![t] = 0]
  /\ returned' = NoReturn
  /\ UNCHANGED <<life, update_immediately_after_write, now, args, lux, device, throttle, attempts, warned,
                 exc, lastBodyStart, lastOkReturn>>

\* UpdateTimeout with a second acquisition attempt before it gives up.
UpdateTimeoutRetries(t) ==
  /\ pc[t] = "u_acquire"
  /\ lock
  /\ now >= deadline[t]
  /\ attempts' = [attempts EXCEPT ![t] = @ + 1]
  /\ warned' = [warned EXCEPT ![t] = @ + 1]
  /\ pc' = [pc EXCEPT ![t] = "u_release"]
  /\ deadline' = [deadline EXCEPT ![t] = 0]
  /\ returned' = NoReturn
  /\ UNCHANGED <<life, update_immediately_after_write, lock, holder, now, args, lux, device,
                 throttle, acquired, ops, exc, lastBodyStart, lastOkReturn>>

\* acquire() returns False after the timeout; the else branch logs the warning.
UpdateTimeout(t) ==
  /\ pc[t] = "u_acquire"
  /\ lock
  /\ now >= deadline[t]
  /\ warned' = [warned EXCEPT ![t] = @ + 1]
  /\ pc' = [pc EXCEPT ![t] = "u_release"]
  /\ deadline' = [deadline EXCEPT ![t] = 0]
  /\ returned' = NoReturn
  /\ UNCHANGED <<life, update_immediately_after_write, lock, holder, now, args, lux, device, throttle,
                 acquired, attempts, ops, exc, lastBodyStart, lastOkReturn>>

\* self._luxtronik.read() returns or raises.
UpdateRead(t) ==
  /\ pc[t] = "u_read"
  /\ \/ /\ lux' = LuxRead(lux, device)
        /\ UNCHANGED exc
     \/ /\ exc' = [exc EXCEPT ![t] = "DeviceError"]
        /\ UNCHANGED lux
  /\ pc' = [pc EXCEPT ![t] = "u_release"]
  /\ returned' = NoReturn
  /\ UNCHANGED <<life, update_immediately_after_write, lock, holder, now, deadline, args, device, throttle,
                 acquired, attempts, warned, ops, lastBodyStart, lastOkReturn>>

\* finally: self.lock.release(); update() returns or raises into the
\* throttle wrapper, which records the time of a run that returned and
\* releases its own lock.
UpdateRelease(t) ==
  /\ pc[t] = "u_release"
  /\ lock' = FALSE
  /\ holder' = NoThread
  /\ Leave(t, ReleaseExc(t))
  /\ throttle' = [lock |-> FALSE,
                  last |-> IF ReleaseExc(t) = "none" THEN now ELSE throttle.last]
  /\ lastOkReturn' = IF ReleaseExc(t) = "none" THEN now ELSE lastOkReturn
  /\ UNCHANGED <<life, update_immediately_after_write, now, deadline, lux, device, lastBodyStart>>

\* ------------------------------------------------------------- get_value()
\* get_sensor(group, sensor_id): the entry of the table the group names,
\* None without one.
get_sensor(l, group, sensor_id) ==
  LET tbl == IF group = CONF_VISIBILITIES THEN l.visibilities
             ELSE IF group = CONF_CALCULATIONS THEN l.calculations
             ELSE IF group = CONF_PARAMETERS THEN l.parameters
             ELSE <<>>
  IN IF sensor_id \in DOMAIN tbl THEN tbl[sensor_id] ELSE None

\* get_sensor_by_id with the two parts taken the other way round.
get_sensor_by_id_swapped(l, group_sensor_id) ==
  LET parts == Split(group_sensor_id, ".")
  IN IF Len(parts) < 2 THEN [exc |-> "IndexError", value |-> None]
     ELSE [exc |-> "none", value |-> get_sensor(l, parts[2], parts[1])]

\* get_sensor_by_id(group_sensor_id): split('.')[0] and split('.')[1].
get_sensor_by_id(l, group_sensor_id) ==
  LET parts == Split(group_sensor_id, ".")
  IN IF Len(parts) < 2 THEN [exc |-> "IndexError", value |-> None]
     ELSE [exc |-> "none", value |-> get_sensor(l, parts[1], parts[2])]

\* get_value(group_sensor_id): the sensor's value, None without a sensor.
get_value(l, group_sensor_id) == get_sensor_by_id(l, group_sensor_id)

GetValueArgs(id) == [op |-> "get_value", value |-> None, ui |-> FALSE, id |-> id]

\* GetValue under the lock, which it takes and keeps.
GetValueLocking(t, id) ==
  /\ pc[t] = "idle"
  /\ ~lock
  /\ lock' = TRUE
  /\ LET r == get_value(lux, id)
     IN returned' = Returned(GetValueArgs(id), FALSE, 0, 0, <<>>, r.exc, r.value)
  /\ UNCHANGED <<life, update_immediately_after_write, pc, holder, now, deadline, args, lux,
                 device, throttle, acquired, attempts, warned, ops, exc,
                 lastBodyStart, lastOkReturn>>

\* A thread calls get_value(id), which returns or raises IndexError.
GetValue(t, id) ==
  /\ pc[t] = "idle"
  /\ LET r == get_value(lux, id)
     IN returned' = Returned(GetValueArgs(id), FALSE, 0, 0, <<>>, r.exc, r.value)
  /\ UNCHANGED <<life, update_immediately_after_write, pc, lock, holder, now, deadline, args, lux, device, throttle,
                 acquired, attempts, warned, ops, exc, lastBodyStart, lastOkReturn>>

\* ------------------------------------------------------------- specification
\* ------------------------------------------------- setup, unload and stop
\* Lux(host, port, safe) before its first read(): nothing in the tables.
NewLux == [parameters |-> <<>>, calculations |-> <<>>, visibilities |-> <<>>,
           queue |-> <<>>]

\* The state when setup_int is entered: no device yet, hass.data[DOMAIN]
\* unset, the throttle without a last run.
SetupInit ==
  /\ pc = [t \in Threads |-> "idle"]
  /\ lock = FALSE
  /\ holder = NoThread
  /\ now = 0
  /\ deadline = [t \in Threads |-> 0]
  /\ args = [t \in Threads |-> NoArgs]
  /\ update_immediately_after_write \in BOOLEAN
  /\ device \in Values
  /\ lux = NewLux
  /\ throttle = [lock |-> FALSE, last |-> Never]
  /\ acquired = [t \in Threads |-> FALSE]
  /\ attempts = [t \in Threads |-> 0]
  /\ warned = [t \in Threads |-> 0]
  /\ ops = [t \in Threads |-> <<>>]
  /\ exc = [t \in Threads |-> "none"]
  /\ returned = NoReturn
  /\ lastBodyStart = Never
  /\ lastOkReturn = Never
  /\ hass_data = "unset"
  /\ connected = FALSE
  /\ unload = NoUnload
  /\ stopped = FALSE

\* hass.data[DOMAIN] holds the device.
Stored == hass_data = "device"

\* LuxtronikDevice.__init__ with the lock created locked.
ConstructLocked(t) ==
  /\ hass_data = "unset"
  /\ lastBodyStart = Never
  /\ pc[t] = "idle"
  /\ now + LockTimeout <= MaxTime
  /\ lock' = TRUE
  /\ holder' = NoThread
  /\ lux' = NewLux
  /\ connected' = TRUE
  /\ ThrottleAllows
  /\ Enter(t, UpdateArgs, "u_acquire")
  /\ throttle' = [throttle EXCEPT !.lock = TRUE]
  /\ lastBodyStart' = now
  /\ returned' = NoReturn
  /\ UNCHANGED <<hass_data, unload, stopped, now, device, lastOkReturn>>

\* LuxtronikDevice.__init__: self.lock = threading.Lock(), the handle
\* Lux(host, port, safe), then self.update(), which the throttle lets through
\* because it has no last run; the body reaches lock.acquire().
Construct(t) ==
  /\ hass_data = "unset"
  /\ lastBodyStart = Never
  /\ pc[t] = "idle"
  /\ now + LockTimeout <= MaxTime
  /\ lock' = FALSE
  /\ holder' = NoThread
  /\ lux' = NewLux
  /\ connected' = TRUE
  /\ ThrottleAllows
  /\ Enter(t, UpdateArgs, "u_acquire")
  /\ throttle' = [throttle EXCEPT !.lock = TRUE]
  /\ lastBodyStart' = now
  /\ returned' = NoReturn
  /\ UNCHANGED <<hass_data, unload, stopped, now, device, lastOkReturn>>

\* setup_int after the constructor returned: hass.data[DOMAIN] = luxtronik.
\* A constructor that raised stores nothing.
Store(t) ==
  /\ hass_data = "unset"
  /\ pc[t] = "idle"
  /\ lastBodyStart # Never
  /\ lastOkReturn # Never
  /\ hass_data' = "device"
  /\ returned' = NoReturn
  /\ UNCHANGED <<connected, unload, stopped, update_immediately_after_write, pc, lock, holder, now,
                 deadline, args, lux, device, throttle, acquired, attempts, warned,
                 ops, exc, lastBodyStart, lastOkReturn>>

\* disconnect(): self._luxtronik._disconnect(), whatever the lock's state.
disconnect == connected' = FALSE

\* The listener of EVENT_HOMEASSISTANT_STOP, registered once and removed
\* when the entry is unloaded.
logout_luxtronik ==
  /\ Stored
  /\ ~stopped
  /\ ~(unload.pc = "returned" /\ unload.ret)
  /\ stopped' = TRUE
  /\ disconnect
  /\ returned' = NoReturn
  /\ UNCHANGED <<hass_data, unload, update_immediately_after_write, pc, lock, holder, now,
                 deadline, args, lux, device, throttle, acquired, attempts, warned,
                 ops, exc, lastBodyStart, lastOkReturn>>

\* async_unload_entry is called and awaits async_unload_platforms.
UnloadCall ==
  /\ Stored
  /\ unload.pc = "none"
  /\ unload' = [unload EXCEPT !.pc = "awaiting"]
  /\ returned' = NoReturn
  /\ UNCHANGED <<hass_data, connected, stopped, update_immediately_after_write, pc, lock, holder,
                 now, deadline, args, lux, device, throttle, acquired, attempts,
                 warned, ops, exc, lastBodyStart, lastOkReturn>>

\* UnloadPlatformsDone calling disconnect() whatever unload_ok is.
UnloadAlwaysDisconnects(unload_ok) ==
  /\ unload.pc = "awaiting"
  /\ disconnect
  /\ unload' = [pc |-> "returned", unload_ok |-> unload_ok,
                disconnects |-> unload.disconnects + 1, ret |-> unload_ok]
  /\ returned' = NoReturn
  /\ UNCHANGED <<hass_data, stopped, update_immediately_after_write, pc, lock, holder,
                 now, deadline, args, lux, device, throttle, acquired, attempts,
                 warned, ops, exc, lastBodyStart, lastOkReturn>>

\* async_unload_platforms returns unload_ok; if unload_ok:
\* hass.data[DOMAIN].disconnect(); return unload_ok.
UnloadPlatformsDone(unload_ok) ==
  /\ unload.pc = "awaiting"
  /\ IF unload_ok
       THEN /\ disconnect
            /\ unload' = [pc |-> "returned", unload_ok |-> unload_ok,
                          disconnects |-> unload.disconnects + 1, ret |-> unload_ok]
       ELSE /\ UNCHANGED connected
            /\ unload' = [pc |-> "returned", unload_ok |-> unload_ok,
                          disconnects |-> unload.disconnects, ret |-> unload_ok]
  /\ returned' = NoReturn
  /\ UNCHANGED <<hass_data, stopped, update_immediately_after_write, pc, lock, holder,
                 now, deadline, args, lux, device, throttle, acquired, attempts,
                 warned, ops, exc, lastBodyStart, lastOkReturn>>

Next ==
  \/ Tick
  \/ \E t \in Threads : WriteCall(t)
  \/ \E t \in Threads : WriteAcquire(t)
  \/ \E t \in Threads : WriteTimeout(t)
  \/ \E t \in Threads : WriteSet(t)
  \/ \E t \in Threads : WriteFlush(t)
  \/ \E t \in Threads : WriteRead(t)
  \/ \E t \in Threads : WriteRelease(t)
  \/ \E t \in Threads : UpdateCall(t)
  \/ \E t \in Threads : UpdateThrottled(t)
  \/ \E t \in Threads : UpdateAcquire(t)
  \/ \E t \in Threads : UpdateTimeout(t)
  \/ \E t \in Threads : UpdateRead(t)
  \/ \E t \in Threads : UpdateRelease(t)
  \/ \E t \in Threads, id \in PolledIds : GetValue(t, id)

Spec == Init /\ [][Next]_vars

\* The lookups on their own: one thread calls get_value with every
\* identifier while another writes, so that the parameter table changes.
LookupNext ==
  \/ \E id \in GroupSensorIds : GetValue(1, id)
  \/ WriteCall(2)
  \/ WriteAcquire(2)
  \/ WriteSet(2)
  \/ WriteFlush(2)
  \/ WriteRead(2)
  \/ WriteRelease(2)

LookupSpec == Init /\ [][LookupNext]_vars

\* Time passes, and a lock.acquire(timeout=...) that can return does return.
Waiting(t) == pc[t] \in {"w_acquire", "u_acquire"}

LiveSpec ==
  /\ Spec
  /\ WF_vars(Tick)
  /\ \A t \in Threads : WF_vars(WriteAcquire(t) \/ WriteTimeout(t))
  /\ \A t \in Threads : WF_vars(UpdateAcquire(t) \/ UpdateTimeout(t))

\* The integration from setup to unload: the setup thread constructs the
\* device and stores it, then polls update(); the other threads call the
\* write_parameter service; the entry may be unloaded and Home Assistant
\* may stop at any time after setup.
LifecycleNext ==
  \/ Tick
  \/ Construct(SetupThread)
  \/ Store(SetupThread)
  \/ Stored /\ UpdateCall(SetupThread)
  \/ UpdateAcquire(SetupThread)
  \/ UpdateTimeout(SetupThread)
  \/ UpdateRead(SetupThread)
  \/ UpdateRelease(SetupThread)
  \/ \E t \in Writers : Stored /\ WriteCall(t)
  \/ \E t \in Writers : WriteAcquire(t)
  \/ \E t \in Writers : WriteTimeout(t)
  \/ \E t \in Writers : WriteSet(t)
  \/ \E t \in Writers : WriteFlush(t)
  \/ \E t \in Writers : WriteRead(t)
  \/ \E t \in Writers : WriteRelease(t)
  \/ UnloadCall
  \/ \E unload_ok \in BOOLEAN : UnloadPlatformsDone(unload_ok)
  \/ logout_luxtronik

LifecycleSpec == SetupInit /\ [][LifecycleNext]_vars

\* ------------------------------------------------------------- properties
\* Thread t has a device-handle operation in flight.
InFlight(t) == pc[t] \in {"w_set", "w_write", "w_read", "u_read"}

Quiescent == \A t \in Threads : pc[t] = "idle"

\* The call that returned in the last step had timed out on the lock.
ReturnedTimedOut == returned.attempts > 0 /\ ~returned.acquired

\* C1: at most one protocol operation (Lux.read, parameters.set, Lux.write)
\* is in flight against the device handle at any time.
C1_AtMostOneInFlight ==
  \A t1, t2 \in Threads : InFlight(t1) /\ InFlight(t2) => t1 = t2

\* C2: the lock is released on every exit path: a call that acquired the
\* lock leaves it free when it returns, normally or by an exception of the
\* device handle, and the lock is free whenever no call is in flight.
C2_LockReleasedOnExit ==
  /\ returned.acquired => ~lock
  /\ Quiescent => ~lock

C2_Witness ==
  /\ Quiescent
  /\ returned.acquired
  /\ returned.exc = "DeviceError"
  /\ ~lock

\* C3: a write() whose acquire timed out logs one warning and calls none of
\* parameters.set, Lux.write, Lux.read; its steps leave the device handle
\* and the heat pump as they were.
C3_TimedOutWriteDoesNothing ==
  [][\A t \in Threads :
       /\ (pc[t] = "w_acquire" /\ pc'[t] = "w_release")
            => warned'[t] = 1 /\ ops'[t] = <<>> /\ lux' = lux /\ device' = device
       /\ (pc[t] = "w_release" /\ ~acquired[t] /\ pc'[t] = "idle")
            => /\ returned'.warned = 1
               /\ returned'.ops = <<>>
               /\ lux' = lux
               /\ device' = device]_vars

C3_Witness ==
  /\ returned.args.op = "write"
  /\ ReturnedTimedOut
  /\ returned.warned = 1
  /\ returned.ops = <<>>

\* C4: an update() whose acquire timed out logs one warning, does not call
\* Lux.read, and has made exactly one acquisition attempt.
C4_TimedOutUpdateSkips ==
  /\ \A t \in Threads :
       pc[t] = "u_release" /\ ~acquired[t]
         => warned[t] = 1 /\ ops[t] = <<>> /\ attempts[t] = 1
  /\ returned.args.op = "update" /\ ReturnedTimedOut
       => returned.warned = 1 /\ returned.ops = <<>> /\ returned.attempts = 1

C4_Witness ==
  /\ returned.args.op = "update"
  /\ ReturnedTimedOut
  /\ returned.warned = 1
  /\ returned.attempts = 1

\* C5: a call whose acquire timed out returns normally: it raises nothing.
C5_TimeoutNeverPropagates ==
  ReturnedTimedOut => returned.exc = "none"

\* C6: a write() that acquired the lock does set, write and, exactly with
\* update_immediately, read, in this order, within one uninterrupted hold
\* of the lock, and no other call's operation occurs in between.
C6_WriteSequenceUninterrupted ==
  /\ \A t \in Threads :
       pc[t] \in {"w_set", "w_write", "w_read"}
         => /\ lock
            /\ holder = t
            /\ \A u \in Threads \ {t} : ~InFlight(u)
  /\ returned.args.op = "write" /\ returned.acquired /\ returned.exc = "none"
       => returned.ops = IF returned.args.ui THEN <<"set", "write", "read">>
                         ELSE <<"set", "write">>

\* The body of update() starts in this step.
BodyStarts(t) == pc[t] = "idle" /\ pc'[t] = "u_acquire"

\* The throttle returned None in this step without running update().
Suppressed == returned'.args.op = "update" /\ returned'.attempts = 0

\* C7 as stated: the body of update() starts at most once per
\* MIN_TIME_BETWEEN_UPDATES, and a suppressed call touches neither the lock
\* nor the device.
C7_OncePerInterval ==
  [][/\ \A t \in Threads :
          BodyStarts(t) => now - lastBodyStart >= MIN_TIME_BETWEEN_UPDATES
     /\ Suppressed => UNCHANGED <<lock, holder, lux, device, pc>>]_vars

\* C7 amended: the body of update() starts only when no other body is
\* running and more than MIN_TIME_BETWEEN_UPDATES has passed since the last
\* body that returned normally; a suppressed call touches neither the lock
\* nor the device.
C7_OncePerIntervalAfterReturn ==
  [][/\ \A t \in Threads :
          BodyStarts(t)
            => /\ now - lastOkReturn > MIN_TIME_BETWEEN_UPDATES
               /\ \A u \in Threads : pc[u] \notin {"u_acquire", "u_read", "u_release"}
     /\ Suppressed => UNCHANGED <<lock, holder, lux, device, pc>>]_vars

\* A body has run and returned, and a later call was suppressed while a
\* write() held the lock.
C7_Witness ==
  /\ lastOkReturn > 0
  /\ returned.args.op = "update"
  /\ returned.attempts = 0
  /\ lock

\* C8: get_value never acquires, waits for or releases the lock, and leaves
\* the lock and the three tables of the device handle unchanged.
C8_GetValueTakesNoLock ==
  [][returned'.args.op = "get_value"
       => UNCHANGED <<lock, holder, lux, device, pc, deadline, attempts, acquired>>]_vars

\* get_value has returned while another thread holds the lock in the
\* middle of a write.
C8_Witness ==
  /\ returned.args.op = "get_value"
  /\ returned.exc = "none"
  /\ lock
  /\ \E t \in Threads : pc[t] = "w_write" /\ holder = t

\* The entry s of the table that group g selects, None without one.
TableValue(g, s) ==
  IF g = CONF_PARAMETERS /\ s \in DOMAIN lux.parameters THEN lux.parameters[s]
  ELSE IF g = CONF_CALCULATIONS /\ s \in DOMAIN lux.calculations THEN lux.calculations[s]
  ELSE IF g = CONF_VISIBILITIES /\ s \in DOMAIN lux.visibilities THEN lux.visibilities[s]
  ELSE None

\* C9: get_value('group.sensor_id') returns the value of entry sensor_id of
\* the table the group selects, and None when the group is none of the
\* three or the table has no such entry.
C9_GetValueLooksUp ==
  \A g \in Groups, s \in SensorIds :
    returned.args.op = "get_value" /\ returned.args.id = g \o <<".">> \o s
      => /\ returned.exc = "none"
         /\ returned.ret = TableValue(g, s)
         /\ (g \notin {CONF_PARAMETERS, CONF_CALCULATIONS, CONF_VISIBILITIES}
               => returned.ret = None)

\* A lookup in the calculations found an entry the parameters do not have.
C9_Witness ==
  /\ returned.args.op = "get_value"
  /\ returned.args.id = CONF_CALCULATIONS \o <<".", "2">>
  /\ returned.ret = "48.0"
  /\ <<"2">> \notin DOMAIN lux.parameters

\* C10: every call waiting for the lock eventually stops waiting, by
\* acquiring it or by giving up after the timeout.
C10_WaitingEnds ==
  \A t \in Threads : Waiting(t) ~> ~Waiting(t)

\* A call has given up while the holder still holds the lock.
C10_Witness ==
  \E t \in Threads :
    /\ pc[t] \in {"w_release", "u_release"}
    /\ ~acquired[t]
    /\ lock
    /\ \E u \in Threads \ {t} : holder = u /\ InFlight(u)

\* The three tables get_value reads.
Tables(l) == <<l.parameters, l.calculations, l.visibilities>>

C14_ReleasedOnlyByHolder ==
  [][lock /\ ~lock'
       => \E t \in Threads :
            /\ holder = t
            /\ acquired[t]
            /\ pc[t] \in {"w_release", "u_release"}
            /\ pc'[t] = "idle"]_vars

\* C15: lock.release() is invoked only while the lock is held.
C15_ReleaseOnlyWhenHeld ==
  [][\A t \in Threads :
       pc[t] \in {"w_release", "u_release"} /\ pc'[t] = "idle" => lock]_vars


\* C12: constructing the device creates a fresh unlocked lock and runs one
\* update(); that first update never times out on the lock, performs one
\* read and leaves the lock free, and the device is in hass.data[DOMAIN]
\* only after an initial read has completed.
C12_ConstructionReadsBeforeStore ==
  /\ ~Stored /\ pc[SetupThread] = "u_acquire" => ~lock
  /\ ~Stored /\ pc[SetupThread] = "u_release"
       => /\ acquired[SetupThread]
          /\ warned[SetupThread] = 0
          /\ ops[SetupThread] = <<"read">>
  /\ ~Stored /\ returned.args.op = "update"
       => /\ returned.acquired
          /\ returned.ops = <<"read">>
          /\ returned.exc # "RuntimeError"
          /\ ~lock
  /\ Stored
       => /\ lastOkReturn # Never
          /\ Tables(lux) # Tables(NewLux)
          /\ DOMAIN lux.parameters # {}

\* The constructor has returned after its read and the device was stored
\* before anything else ran.
C12_Witness ==
  /\ Stored
  /\ Quiescent
  /\ ~lock
  /\ lastBodyStart = lastOkReturn
  /\ lux = InitLux(device)
  /\ unload.pc = "none"
  /\ ~stopped

\* C13: async_unload_entry returns the platform-unload result and calls
\* disconnect() exactly once when that result is true, after the platforms
\* were unloaded, and not at all when it is false, leaving the connection as
\* it was.
C13_UnloadDisconnectsIffOk ==
  /\ [](/\ unload.pc # "returned" => unload.disconnects = 0
        /\ unload.pc = "returned"
             => /\ unload.ret = unload.unload_ok
                /\ unload.disconnects = (IF unload.unload_ok THEN 1 ELSE 0)
                /\ unload.unload_ok => ~connected
                /\ ~unload.unload_ok /\ ~stopped => connected)
  /\ [][unload' # unload /\ unload'.pc = "returned"
          => /\ unload.pc = "awaiting"
             /\ ~unload'.unload_ok => connected' = connected]_vars

\* An unload whose platforms did not unload has returned False and the
\* device is still connected.
C13_Witness ==
  /\ unload.pc = "returned"
  /\ ~unload.unload_ok
  /\ ~unload.ret
  /\ unload.disconnects = 0
  /\ connected

\* C16: the connection is never closed, by the stop-event handler or by
\* async_unload_entry, while a read or write started by update() or write()
\* is in flight on the device handle.
C16_DisconnectSerialized ==
  [][(stopped' # stopped \/ unload'.disconnects # unload.disconnects)
       => \A t \in Threads : pc[t] \notin {"w_write", "w_read", "u_read"}]_vars
=============================================================================
